---- MODULE Spec2Model ----
(***************************************************************************)
(* RE_TRACKER dashboard (src/frontend/chart.js): the dataset cache, the    *)
(* demo-data fallback, the timeframe filter, the SMA overlay and the       *)
(* statistics cards, as a state machine driven by the browser's events.    *)
(*                                                                         *)
(* Units: prices are integers in cents, the jitter and sine terms of the   *)
(* demo generator are quantised to tenths of a listing and to cents, dates *)
(* are day numbers.  A JavaScript number that results from a division is   *)
(* kept as the exact fraction n/d.                                         *)
(***************************************************************************)
EXTENDS Integers, Sequences, FiniteSets, TLC

VARIABLES
    phase,        \* "loading" (script not yet run), "script" (chart.js has run), "ready" (DOMContentLoaded handled)
    housingChart, \* the global chart handle (line 3)
    cachedData,   \* the global dataset cache (line 4)
    timeframe,    \* value of the #timeframeSelect control
    smaSelect,    \* value of the #smaSelect control
    stats,        \* text and colour of the four statistics cards
    btnDisabled,  \* #refreshBtn.disabled
    loads,        \* loadData() calls in flight, in start order
    lastLoad,     \* history: the most recently completed loadData() call
    uncaught,     \* history: an exception escaped the script, a handler or a loadData() call
    fnIn,         \* argument of the pure function under test (function specifications only)
    fnOut         \* its result

vars == <<phase, housingChart, cachedData, timeframe, smaSelect, stats,
          btnDisabled, loads, lastLoad, uncaught, fnIn, fnOut>>

----------------------------------------------------------------------------
(* Bounds of the model *)

\* longest array the backend is made to return
MaxPayloadLen == 8
\* number of different random draws of the demo generator
NumSeeds == 2
\* cap on the loadData() calls in flight at once
MaxInFlight == 3
\* day number of "now"
Today == 400
\* days after which formatDate's month/day label repeats
YearLength == 365
\* longest input sequence of the pure-function specifications
MaxSeqLen == 4
\* largest value in an input sequence of the pure-function specifications
MaxVal == 2

\* longest dataset handed to the timeframe filter and to updateStats on their own
MaxDatasetLen == 100

\* number of consecutive runs of updateChart on its own
MaxRuns == 2

\* for (let i = 90; i >= 0; i--)
DemoDays == 90

----------------------------------------------------------------------------
(* JavaScript values *)

Num(k) == [t |-> "number", n |-> k, d |-> 1]
Frac(a, b) == [t |-> "number", n |-> a, d |-> b]
Undefined == [t |-> "undefined", n |-> 0, d |-> 1]
JSNull == [t |-> "null", n |-> 0, d |-> 1]
NaN == [t |-> "NaN", n |-> 0, d |-> 1]

IsNumber(v) == v.t = "number"

Min(a, b) == IF a < b THEN a ELSE b
Max(a, b) == IF a > b THEN a ELSE b
Abs(a) == IF a < 0 THEN -a ELSE a

\* a + b of the reduce callback, for operands that are numbers with the same
\* denominator, undefined or NaN
JSAdd(a, b) ==
    IF IsNumber(a) /\ IsNumber(b) THEN Frac(a.n + b.n, a.d) ELSE NaN

\* sum / period
JSDiv(a, k) ==
    IF ~IsNumber(a) THEN NaN
    ELSE IF k = 0 THEN NaN
    ELSE IF k < 0 THEN Frac(-a.n, a.d * (-k))
    ELSE Frac(a.n, a.d * k)

\* the array with elements f[1], ..., f[n], as a sequence
ToArray(f, n) == SubSeq(f, 1, n)

\* Array.prototype.slice(begin, end) on a sequence (0-based begin and end,
\* negative values count from the end)
ArraySlice(s, begin, end) ==
    LET len == Len(s)
        b == IF begin < 0 THEN Max(len + begin, 0) ELSE Min(begin, len)
        e == IF end < 0 THEN Max(len + end, 0) ELSE Min(end, len)
    IN  IF b >= e THEN <<>> ELSE SubSeq(s, b + 1, e)

\* Array.prototype.reduce((a, b) => a + b, acc) from element k on (1-based)
RECURSIVE ReduceFrom(_, _, _)
ReduceFrom(s, k, acc) ==
    IF k > Len(s) THEN acc
    ELSE LET next == JSAdd(acc, s[k])
         IN  IF next.t = "NaN" THEN NaN ELSE ReduceFrom(s, k + 1, next)

ReduceAdd(s, acc) == ReduceFrom(s, 1, acc)

\* parseInt of an <option> value
parseInt(s) ==
    CASE s = "0" -> 0
      [] s = "7" -> 7
      [] s = "30" -> 30
      [] s = "90" -> 90
      [] s = "180" -> 180
      [] s = "365" -> 365
      [] OTHER -> -1

Timeframes == {"7", "30", "90", "180", "365", "all"}
SmaPeriods == {"0", "7", "30", "90"}

\* new Date(s).toLocaleDateString('en-US', {month: 'short', day: 'numeric'}):
\* the label keeps month and day and drops the year
formatDate(date) == date % YearLength

----------------------------------------------------------------------------
(* The dataset values *)

\* a decoded JSON body, or the cache: null, a non-array object, or an array
NullValue == [kind |-> "null", items |-> <<>>]
ObjectValue == [kind |-> "object", items |-> <<>>]
ArrayOf(points) == [kind |-> "array", items |-> points]

\* round(50 * sin(i / 15)) for i = 0..90: the term Math.sin(i / 15) * 5, in tenths
SinListings == <<
    0, 3, 7, 10, 13, 16, 19, 22, 25, 28, 31, 33, 36, 38, 40, 42, 44, 45, 47,
    48, 49, 49, 50, 50, 50, 50, 49, 49, 48, 47, 45, 44, 42, 40, 38, 36, 34,
    31, 29, 26, 23, 20, 17, 14, 10, 7, 4, 0, -3, -6, -10, -13, -16, -19, -22,
    -25, -28, -31, -33, -36, -38, -40, -42, -44, -45, -46, -48, -48, -49,
    -50, -50, -50, -50, -49, -49, -48, -47, -46, -44, -43, -41, -39, -36,
    -34, -32, -29, -26, -23, -20, -17, -14 >>

\* round(1000 * sin(i / 10)) for i = 0..90: the term Math.sin(i / 10) * 10, in cents
SinPrice == <<
    0, 100, 199, 296, 389, 479, 565, 644, 717, 783, 841, 891, 932, 964, 985,
    997, 1000, 992, 974, 946, 909, 863, 808, 746, 675, 598, 516, 427, 335,
    239, 141, 42, -58, -158, -256, -351, -443, -530, -612, -688, -757, -818,
    -872, -916, -952, -978, -994, -1000, -996, -982, -959, -926, -883, -832,
    -773, -706, -631, -551, -465, -374, -279, -182, -83, 17, 117, 215, 312,
    405, 494, 578, 657, 729, 794, 850, 899, 938, 968, 988, 999, 999, 989,
    970, 941, 902, 855, 798, 734, 663, 585, 501, 412 >>

\* a draw of the generator: the values Math.random() returns and the reading
\* of the clock by new Date()
Seeds == 1..NumSeeds

\* readings of the browser's clock: the local hour, the zone's offset from UTC
\* in hours in winter and in summer time, and the days before Today on which
\* summer time began.  Noon in a zone that stays on UTC, and 19:00 in a zone
\* five hours west of UTC whose summer time began eleven days ago.
Clocks ==
    << [hour |-> 12, winter |-> 0, summer |-> 0, since |-> 0],
       [hour |-> 19, winter |-> -5, summer |-> -4, since |-> 11] >>

ClockOf(seed) == Clocks[(seed % Len(Clocks)) + 1]

\* date.toISOString().split('T')[0] for the Date that setDate() has moved to
\* the local day `day`, local time of day kept: the day of that instant in UTC
toISODate(clock, day) ==
    LET offset == IF day >= Today - clock.since THEN clock.summer ELSE clock.winter
    IN  (day * 24 + clock.hour - offset) \div 24

\* (Math.random() - 0.5) * 3, in tenths: a value of -15..14 fixed by the draw
JitterListings(seed, i) == ((seed * 7 + i * 13) % 30) - 15

\* (Math.random() - 0.5) * 5, in cents: a value of -250..249 fixed by the draw
JitterPrice(seed, i) == ((seed * 137 + i * 211) % 500) - 250

\* the object pushed for offset i (lines 192-204)
DemoPoint(seed, i) ==
    LET baseListings == 450 + SinListings[i + 1] + JitterListings(seed, i)
        basePrice == 45000 + (DemoDays - i) * 50 + SinPrice[i + 1] + JitterPrice(seed, i)
    IN  [date |-> toISODate(ClockOf(seed), Today - i),
         active_listings |-> (baseListings + 5) \div 10,
         avg_price_per_sqft |-> Num(basePrice),
         data_source |-> IF i > 30 THEN "historical" ELSE "scraped"]

\* the array built by the loop of useDemoData: i runs from 90 down to 0
DemoTable ==
    [seed \in Seeds |->
        ToArray([k \in 1..(DemoDays + 1) |-> DemoPoint(seed, DemoDays + 1 - k)], DemoDays + 1)]

DemoData(seed) == DemoTable[seed]

DemoDatasets == {ArrayOf(DemoData(seed)) : seed \in Seeds}

\* the arrays GET /api/data is made to answer with
PayloadKinds == {"rising", "falling", "zeroRef", "noPrice", "sameDate"}

PayloadPoint(kind, n, i) ==
    [date |-> IF kind = "sameDate" THEN Today - MaxPayloadLen
              ELSE Today - MaxPayloadLen + i,
     active_listings |-> 40 + i,
     avg_price_per_sqft |->
         CASE kind = "falling" -> Num(20000 - 100 * i)
           [] kind = "zeroRef" /\ i = 1 -> Num(0)
           [] kind = "noPrice" /\ i = n -> Undefined
           [] OTHER -> Num(10000 + 100 * i),
     data_source |-> "scraped"]

Payload(kind, n) == ArrayOf(ToArray([i \in 1..n |-> PayloadPoint(kind, n, i)], n))

PayloadArrays ==
    {Payload("rising", n) : n \in 0..MaxPayloadLen}
        \cup {Payload(kind, n) : kind \in PayloadKinds, n \in {1, MaxPayloadLen}}

\* what response.json() can resolve with
JsonValues == {NullValue, ObjectValue} \cup PayloadArrays

----------------------------------------------------------------------------
(* The chart, the statistics cards and the functions that write them *)

NullChart == [exists |-> FALSE, labels |-> <<>>, datasets |-> <<>>]

\* new Chart(ctx, {data: {labels: [], datasets: [{...}, {...}]}})
initializeChart ==
    [exists |-> TRUE,
     labels |-> <<>>,
     datasets |-> << [label |-> "Active Listings", data |-> <<>>],
                     [label |-> "Avg Price/SqFt", data |-> <<>>] >>]

\* `${smaPeriod}-Day SMA`
SmaLabel(smaPeriod) == ToString(smaPeriod) \o "-Day SMA"

\* the loop body with the test i < period: one null too many
SMAEntryLate(data, period, i) ==
    IF i < period THEN JSNull
    ELSE JSDiv(ReduceAdd(ArraySlice(data, i - period + 1, i + 1), Num(0)), period)

\* the loop body that averages the points there are while fewer than `period`
\* have been seen
SMAEntryPartial(data, period, i) ==
    JSDiv(ReduceAdd(ArraySlice(data, Max(0, i - period + 1), i + 1), Num(0)),
          Min(period, i + 1))

\* the loop body of calculateSMA for index i (0-based)
SMAEntry(data, period, i) ==
    IF i < period - 1 THEN JSNull
    ELSE JSDiv(ReduceAdd(ArraySlice(data, i - period + 1, i + 1), Num(0)), period)

\* a filter that keeps the first points instead of the last
FilterDataHead(items, tf) ==
    IF tf # "all" THEN ArraySlice(items, 0, parseInt(tf)) ELSE items

\* a filter for which "all" is the span of the demo history
FilterDataAllCapped(items, tf) ==
    IF tf # "all" THEN ArraySlice(items, -parseInt(tf), Len(items))
    ELSE ArraySlice(items, -DemoDays, Len(items))

\* filteredData of updateChart (lines 219-223)
FilterData(items, tf) ==
    IF tf # "all" THEN ArraySlice(items, -parseInt(tf), Len(items)) ELSE items

\* the loop of calculateSMA
SMALoop(data, period) ==
    ToArray([k \in 1..Len(data) |-> SMAEntry(data, period, k - 1)], Len(data))

\* the price series updateChart can pass to calculateSMA while the cache holds
\* demo data, with the periods of the control
DemoSeries ==
    {ToArray([k \in 1..Len(f) |-> f[k].avg_price_per_sqft], Len(f)) :
        f \in {FilterData(DemoData(seed), tf) : seed \in Seeds, tf \in Timeframes}}

\* SMALoop of those, evaluated once
SMAMemo ==
    {[data |-> d, period |-> parseInt(v), sma |-> SMALoop(d, parseInt(v))] :
        d \in DemoSeries, v \in SmaPeriods}

\* calculateSMA that leaves out the nulls of the first period - 1 indices
calculateSMATrimmed(data, period) ==
    SubSeq(SMALoop(data, period), period, Len(data))

\* calculateSMA(data, period): SMALoop(data, period), looked up where it has
\* been evaluated before
calculateSMA(data, period) ==
    LET known == {m \in SMAMemo : m.period = period /\ m.data = data}
    IN  IF known # {} THEN (CHOOSE m \in known : TRUE).sma ELSE SMALoop(data, period)

\* lines 236-261 without the else branch: an overlay, once added, stays
ApplySMAKeep(datasets, priceData, smaPeriod, filteredLen) ==
    IF smaPeriod > 0 /\ filteredLen >= smaPeriod
    THEN LET priceSMA == calculateSMA(priceData, smaPeriod)
         IN  IF Len(datasets) = 2
             THEN Append(datasets, [label |-> SmaLabel(smaPeriod), data |-> priceSMA])
             ELSE [datasets EXCEPT ![3] = [label |-> SmaLabel(smaPeriod), data |-> priceSMA]]
    ELSE datasets

\* lines 236-261 without line 254: an overlay updated in place keeps its label
ApplySMAKeepLabel(datasets, priceData, smaPeriod, filteredLen) ==
    IF smaPeriod > 0 /\ filteredLen >= smaPeriod
    THEN LET priceSMA == calculateSMA(priceData, smaPeriod)
         IN  IF Len(datasets) = 2
             THEN Append(datasets, [label |-> SmaLabel(smaPeriod), data |-> priceSMA])
             ELSE [datasets EXCEPT ![3].data = priceSMA]
    ELSE IF Len(datasets) > 2
         THEN SubSeq(datasets, 1, Len(datasets) - 1)
         ELSE datasets

\* lines 236-261 with the push of line 241 taken whenever an overlay is due
ApplySMAPush(datasets, priceData, smaPeriod, filteredLen) ==
    IF smaPeriod > 0 /\ filteredLen >= smaPeriod
    THEN Append(datasets, [label |-> SmaLabel(smaPeriod),
                           data |-> calculateSMA(priceData, smaPeriod)])
    ELSE IF Len(datasets) > 2
         THEN SubSeq(datasets, 1, Len(datasets) - 1)
         ELSE datasets

\* lines 236-261 without the length test of line 236
ApplySMAUnguarded(datasets, priceData, smaPeriod, filteredLen) ==
    IF smaPeriod > 0
    THEN LET priceSMA == calculateSMA(priceData, smaPeriod)
         IN  IF Len(datasets) = 2
             THEN Append(datasets, [label |-> SmaLabel(smaPeriod), data |-> priceSMA])
             ELSE [datasets EXCEPT ![3] = [label |-> SmaLabel(smaPeriod), data |-> priceSMA]]
    ELSE IF Len(datasets) > 2
         THEN SubSeq(datasets, 1, Len(datasets) - 1)
         ELSE datasets

\* lines 236-261 without the length test of line 258: pop() whenever no overlay is due
ApplySMAPopAlways(datasets, priceData, smaPeriod, filteredLen) ==
    IF smaPeriod > 0 /\ filteredLen >= smaPeriod
    THEN LET priceSMA == calculateSMA(priceData, smaPeriod)
         IN  IF Len(datasets) = 2
             THEN Append(datasets, [label |-> SmaLabel(smaPeriod), data |-> priceSMA])
             ELSE [datasets EXCEPT ![3] = [label |-> SmaLabel(smaPeriod), data |-> priceSMA]]
    ELSE SubSeq(datasets, 1, Len(datasets) - 1)

\* lines 236-261: the datasets after the overlay has been added, updated or removed
ApplySMA(datasets, priceData, smaPeriod, filteredLen) ==
    IF smaPeriod > 0 /\ filteredLen >= smaPeriod
    THEN LET priceSMA == calculateSMA(priceData, smaPeriod)
         IN  IF Len(datasets) = 2
             THEN Append(datasets, [label |-> SmaLabel(smaPeriod), data |-> priceSMA])
             ELSE [datasets EXCEPT ![3] = [label |-> SmaLabel(smaPeriod), data |-> priceSMA]]
    ELSE IF Len(datasets) > 2
         THEN SubSeq(datasets, 1, Len(datasets) - 1)
         ELSE datasets

\* updateChart() that averages over the whole cache and shows the part of the
\* average that falls into the window
updateChartSMAOverCache(cd, chart, tf, sma) ==
    IF cd.kind = "null" \/ (cd.kind = "array" /\ Len(cd.items) = 0)
    THEN [chart |-> chart, threw |-> FALSE]
    ELSE IF cd.kind # "array"
    THEN [chart |-> chart, threw |-> TRUE]
    ELSE IF ~chart.exists
    THEN [chart |-> chart, threw |-> TRUE]
    ELSE LET smaPeriod == parseInt(sma)
             filteredData == FilterData(cd.items, tf)
             n == Len(filteredData)
             all == Len(cd.items)
             labels == ToArray([k \in 1..n |-> formatDate(filteredData[k].date)], n)
             listingsData == ToArray([k \in 1..n |-> filteredData[k].active_listings], n)
             priceData == ToArray([k \in 1..n |-> filteredData[k].avg_price_per_sqft], n)
             allPrices == ToArray([k \in 1..all |-> cd.items[k].avg_price_per_sqft], all)
             base == [chart.datasets EXCEPT ![1].data = listingsData,
                                            ![2].data = priceData]
             whole == ApplySMA(base, allPrices, smaPeriod, n)
         IN  [chart |-> [exists |-> TRUE,
                         labels |-> labels,
                         datasets |-> IF Len(whole) > 2
                                      THEN [whole EXCEPT ![3].data = ArraySlice(@, -n, Len(@))]
                                      ELSE whole],
              threw |-> FALSE]

\* a run that calls calculateSMA whenever the window has enough points
SMACallsUnguarded(cd, chart, tf, sma) ==
    IF cd.kind # "array" \/ Len(cd.items) = 0 \/ ~chart.exists THEN {}
    ELSE IF Len(FilterData(cd.items, tf)) >= parseInt(sma) THEN {parseInt(sma)}
    ELSE {}

\* the periods with which a run of updateChart() calls calculateSMA: the call
\* of line 237 is reached when the run gets past lines 213-233 and the test of
\* line 236 holds
SMACalls(cd, chart, tf, sma) ==
    IF cd.kind # "array" \/ Len(cd.items) = 0 \/ ~chart.exists THEN {}
    ELSE IF parseInt(sma) > 0 /\ Len(FilterData(cd.items, tf)) >= parseInt(sma)
    THEN {parseInt(sma)}
    ELSE {}

\* updateChart(): the chart it leaves, and whether it threw
updateChart(cd, chart, tf, sma) ==
    IF cd.kind = "null" \/ (cd.kind = "array" /\ Len(cd.items) = 0)
    THEN [chart |-> chart, threw |-> FALSE]
    ELSE IF cd.kind # "array"
    THEN \* slice / map is not a function
         [chart |-> chart, threw |-> TRUE]
    ELSE IF ~chart.exists
    THEN \* housingChart is null at line 231
         [chart |-> chart, threw |-> TRUE]
    ELSE LET smaPeriod == parseInt(sma)
             filteredData == FilterData(cd.items, tf)
             n == Len(filteredData)
             labels == ToArray([k \in 1..n |-> formatDate(filteredData[k].date)], n)
             listingsData == ToArray([k \in 1..n |-> filteredData[k].active_listings], n)
             priceData == ToArray([k \in 1..n |-> filteredData[k].avg_price_per_sqft], n)
             base == [chart.datasets EXCEPT ![1].data = listingsData,
                                            ![2].data = priceData]
         IN  [chart |-> [exists |-> TRUE,
                         labels |-> labels,
                         datasets |-> ApplySMA(base, priceData, smaPeriod, n)],
              threw |-> FALSE]

UnsetText == [t |-> "unset", sign |-> "", n |-> 0]
UnsetStats ==
    [currentListings |-> UnsetText, currentPrice |-> UnsetText,
     priceChange |-> UnsetText, color |-> "", lastUpdate |-> UnsetText]

\* '$' + x.toFixed(2), x in cents
PriceText(cents) == [t |-> "price", sign |-> "", n |-> cents]

\* the digits of |x|.toFixed(1) for x = a / b, in tenths: the nearest tenth,
\* the larger one on a tie
ToFixed1(a, b) == (2 * 10 * Abs(a) + b) \div (2 * b)

\* lines 292-295 with the test priceChange > 0: no '+' before a change of zero
PriceChangeTextPlusPositive(latest, ref) ==
    IF ~IsNumber(ref) THEN [text |-> [t |-> "NaN%", sign |-> "", n |-> 0], color |-> "#f28b82"]
    ELSE IF ref.n = 0
    THEN IF latest.n = 0
         THEN [text |-> [t |-> "NaN%", sign |-> "", n |-> 0], color |-> "#f28b82"]
         ELSE IF latest.n > 0
         THEN [text |-> [t |-> "Infinity%", sign |-> "+", n |-> 0], color |-> "#81c995"]
         ELSE [text |-> [t |-> "Infinity%", sign |-> "-", n |-> 0], color |-> "#f28b82"]
    ELSE LET diff == (latest.n - ref.n) * 100
             nonneg == (diff >= 0) = (ref.n > 0) \/ diff = 0
         IN  [text |-> [t |-> "percent",
                        sign |-> IF diff = 0 THEN "" ELSE IF nonneg THEN "+" ELSE "-",
                        n |-> ToFixed1(diff, Abs(ref.n))],
              color |-> IF nonneg /\ diff # 0 THEN "#81c995" ELSE "#f28b82"]

\* lines 292-295: text and colour of the price-change card
PriceChangeText(latest, ref) ==
    IF ~IsNumber(ref) THEN [text |-> [t |-> "NaN%", sign |-> "", n |-> 0], color |-> "#f28b82"]
    ELSE IF ref.n = 0
    THEN IF latest.n = 0
         THEN [text |-> [t |-> "NaN%", sign |-> "", n |-> 0], color |-> "#f28b82"]
         ELSE IF latest.n > 0
         THEN [text |-> [t |-> "Infinity%", sign |-> "+", n |-> 0], color |-> "#81c995"]
         ELSE [text |-> [t |-> "Infinity%", sign |-> "-", n |-> 0], color |-> "#f28b82"]
    ELSE LET diff == (latest.n - ref.n) * 100
             nonneg == (diff >= 0) = (ref.n > 0) \/ diff = 0
         IN  [text |-> [t |-> "percent",
                        sign |-> IF nonneg THEN "+" ELSE "-",
                        n |-> ToFixed1(diff, Abs(ref.n))],
              color |-> IF nonneg THEN "#81c995" ELSE "#f28b82"]

\* updateStats() whose reference is the point 29 points before the last
updateStatsNear(cd, st) ==
    IF cd.kind = "null" \/ (cd.kind = "array" /\ Len(cd.items) = 0)
    THEN [stats |-> st, threw |-> FALSE]
    ELSE IF cd.kind # "array"
    THEN \* latest is undefined at line 288
         [stats |-> st, threw |-> TRUE]
    ELSE LET len == Len(cd.items)
             latest == cd.items[len]
             thirtyDaysAgo == cd.items[Max(0, len - 30) + 1]
             listed == [st EXCEPT !.currentListings =
                            [t |-> "count", sign |-> "", n |-> latest.active_listings]]
         IN  IF ~IsNumber(latest.avg_price_per_sqft)
             THEN \* undefined.toFixed at line 289, after line 288 has written
                  [stats |-> listed, threw |-> TRUE]
             ELSE LET change == PriceChangeText(latest.avg_price_per_sqft,
                                                thirtyDaysAgo.avg_price_per_sqft)
                  IN  [stats |->
                         [currentListings |-> listed.currentListings,
                          currentPrice |-> PriceText(latest.avg_price_per_sqft.n),
                          priceChange |-> change.text,
                          color |-> change.color,
                          lastUpdate |-> [t |-> "date", sign |-> "", n |-> formatDate(latest.date)]],
                       threw |-> FALSE]

\* updateStats() that blanks the cards when the cache is null or empty
updateStatsBlank(cd, st) ==
    IF cd.kind = "null" \/ (cd.kind = "array" /\ Len(cd.items) = 0)
    THEN [stats |-> UnsetStats, threw |-> FALSE]
    ELSE IF cd.kind # "array"
    THEN \* latest is undefined at line 288
         [stats |-> st, threw |-> TRUE]
    ELSE LET len == Len(cd.items)
             latest == cd.items[len]
             thirtyDaysAgo == cd.items[Max(0, len - 31) + 1]
             listed == [st EXCEPT !.currentListings =
                            [t |-> "count", sign |-> "", n |-> latest.active_listings]]
         IN  IF ~IsNumber(latest.avg_price_per_sqft)
             THEN \* undefined.toFixed at line 289, after line 288 has written
                  [stats |-> listed, threw |-> TRUE]
             ELSE LET change == PriceChangeText(latest.avg_price_per_sqft,
                                                thirtyDaysAgo.avg_price_per_sqft)
                  IN  [stats |->
                         [currentListings |-> listed.currentListings,
                          currentPrice |-> PriceText(latest.avg_price_per_sqft.n),
                          priceChange |-> change.text,
                          color |-> change.color,
                          lastUpdate |-> [t |-> "date", sign |-> "", n |-> formatDate(latest.date)]],
                       threw |-> FALSE]

\* updateStats(): the cards it leaves, and whether it threw
updateStats(cd, st) ==
    IF cd.kind = "null" \/ (cd.kind = "array" /\ Len(cd.items) = 0)
    THEN [stats |-> st, threw |-> FALSE]
    ELSE IF cd.kind # "array"
    THEN \* latest is undefined at line 288
         [stats |-> st, threw |-> TRUE]
    ELSE LET len == Len(cd.items)
             latest == cd.items[len]
             thirtyDaysAgo == cd.items[Max(0, len - 31) + 1]
             listed == [st EXCEPT !.currentListings =
                            [t |-> "count", sign |-> "", n |-> latest.active_listings]]
         IN  IF ~IsNumber(latest.avg_price_per_sqft)
             THEN \* undefined.toFixed at line 289, after line 288 has written
                  [stats |-> listed, threw |-> TRUE]
             ELSE LET change == PriceChangeText(latest.avg_price_per_sqft,
                                                thirtyDaysAgo.avg_price_per_sqft)
                  IN  [stats |->
                         [currentListings |-> listed.currentListings,
                          currentPrice |-> PriceText(latest.avg_price_per_sqft.n),
                          priceChange |-> change.text,
                          color |-> change.color,
                          lastUpdate |-> [t |-> "date", sign |-> "", n |-> formatDate(latest.date)]],
                       threw |-> FALSE]

\* useDemoData() that fills the cache and renders nothing
useDemoDataNoRender(seed, chart, st, tf, sma) ==
    [cachedData |-> ArrayOf(DemoData(seed)), chart |-> chart, stats |-> st, threw |-> FALSE]

\* useDemoData() with the random draw `seed`: the globals it leaves, and
\* whether it threw
useDemoData(seed, chart, st, tf, sma) ==
    LET cd == ArrayOf(DemoData(seed))
        c == updateChart(cd, chart, tf, sma)
        s == updateStats(cd, st)
    IN  IF c.threw
        THEN [cachedData |-> cd, chart |-> c.chart, stats |-> st, threw |-> TRUE]
        ELSE [cachedData |-> cd, chart |-> c.chart, stats |-> s.stats, threw |-> s.threw]

\* the catch block of loadData() (lines 176-180): what the call leaves, and
\* whether the exception of useDemoData() escapes it
loadDataCatch(seed, chart, st, tf, sma) ==
    LET u == useDemoData(seed, chart, st, tf, sma)
    IN  [cachedData |-> u.cachedData, chart |-> u.chart, stats |-> u.stats,
         threw |-> u.threw, fallback |-> TRUE]

\* loadData() that keeps in the cache only the points the window shows
loadDataTryFiltered(value, chart, st, tf, sma) ==
    LET kept == IF value.kind = "array"
                THEN ArrayOf(FilterData(value.items, tf)) ELSE value
        c == updateChart(kept, chart, tf, sma)
        s == updateStats(kept, st)
    IN  [cachedData |-> kept, chart |-> c.chart, stats |-> s.stats,
         threw |-> c.threw \/ s.threw, fallback |-> FALSE]

\* lines 172-174 of loadData() once response.json() has resolved with
\* `value`: what the try block leaves, and whether it threw
loadDataTry(value, chart, st, tf, sma) ==
    LET c == updateChart(value, chart, tf, sma)
        s == updateStats(value, st)
    IN  IF c.threw
        THEN [cachedData |-> value, chart |-> c.chart, stats |-> st,
              threw |-> TRUE, fallback |-> FALSE]
        ELSE [cachedData |-> value, chart |-> c.chart, stats |-> s.stats,
              threw |-> s.threw, fallback |-> FALSE]

----------------------------------------------------------------------------
(* The page: script load, DOMContentLoaded, the controls and the loads *)

\* no pure function is under test
NoCall == [fn |-> "none", data |-> <<>>, arg |-> 0]
NoResult == [done |-> FALSE, value |-> <<>>]

NoLoad ==
    [valid |-> FALSE, trigger |-> "", outcome |-> "", value |-> NullValue,
     seed |-> 0, threw |-> FALSE, fallback |-> FALSE]

Remove(s, i) == SubSeq(s, 1, i - 1) \o SubSeq(s, i + 1, Len(s))

\* lines 3-4; the selected options are those of the page as the browser shows it
Init ==
    /\ phase = "loading"
    /\ housingChart = NullChart
    /\ cachedData = NullValue
    /\ timeframe \in Timeframes
    /\ smaSelect \in SmaPeriods
    /\ stats = UnsetStats
    /\ btnDisabled = FALSE
    /\ loads = <<>>
    /\ lastLoad = NoLoad
    /\ uncaught = FALSE
    /\ fnIn = NoCall
    /\ fnOut = NoResult

\* the script runs to its end: the listener of line 7 is registered and line
\* 320 calls useDemoData() while housingChart is still null
ScriptLoad ==
    /\ phase = "loading"
    /\ \E seed \in Seeds :
         LET u == useDemoData(seed, housingChart, stats, timeframe, smaSelect)
         IN  /\ cachedData' = u.cachedData
             /\ housingChart' = u.chart
             /\ stats' = u.stats
             /\ uncaught' = (uncaught \/ u.threw)
    /\ phase' = "script"
    /\ UNCHANGED <<timeframe, smaSelect, btnDisabled, loads, lastLoad, fnIn, fnOut>>

\* lines 7-11: initializeChart(); loadData() up to its first await;
\* setupEventListeners()
DOMContentLoaded ==
    /\ phase = "script"
    /\ housingChart' = initializeChart
    /\ loads' = Append(loads, [trigger |-> "initial", stage |-> "fetch"])
    /\ phase' = "ready"
    /\ UNCHANGED <<cachedData, timeframe, smaSelect, stats, btnDisabled, lastLoad,
                   uncaught, fnIn, fnOut>>

\* the user picks another timeframe: the change listener of line 15 runs updateChart
TimeframeChange(v) ==
    /\ phase = "ready"
    /\ v # timeframe
    /\ timeframe' = v
    /\ LET c == updateChart(cachedData, housingChart, v, smaSelect)
       IN  /\ housingChart' = c.chart
           /\ uncaught' = (uncaught \/ c.threw)
    /\ UNCHANGED <<phase, cachedData, smaSelect, stats, btnDisabled, loads, lastLoad,
                   fnIn, fnOut>>

\* the user picks another SMA period: the change listener of line 16 runs updateChart
SmaChange(v) ==
    /\ phase = "ready"
    /\ v # smaSelect
    /\ smaSelect' = v
    /\ LET c == updateChart(cachedData, housingChart, timeframe, v)
       IN  /\ housingChart' = c.chart
           /\ uncaught' = (uncaught \/ c.threw)
    /\ UNCHANGED <<phase, cachedData, timeframe, stats, btnDisabled, loads, lastLoad,
                   fnIn, fnOut>>

\* refreshData() that leaves the button enabled while it awaits loadData()
RefreshClickNoDisable ==
    /\ phase = "ready"
    /\ ~btnDisabled
    /\ Len(loads) < MaxInFlight
    /\ loads' = Append(loads, [trigger |-> "refresh", stage |-> "fetch"])
    /\ UNCHANGED <<phase, housingChart, cachedData, timeframe, smaSelect, stats,
                   btnDisabled, lastLoad, uncaught, fnIn, fnOut>>

\* a click on #refreshBtn, which a disabled button does not dispatch:
\* refreshData() up to its await (lines 308-313)
RefreshClick ==
    /\ phase = "ready"
    /\ ~btnDisabled
    /\ Len(loads) < MaxInFlight
    /\ btnDisabled' = TRUE
    /\ loads' = Append(loads, [trigger |-> "refresh", stage |-> "fetch"])
    /\ UNCHANGED <<phase, housingChart, cachedData, timeframe, smaSelect, stats,
                   lastLoad, uncaught, fnIn, fnOut>>

\* a refreshData() that never resumes after its await
CompleteNoResume(i, r, outcome, value, seed) ==
    /\ cachedData' = r.cachedData
    /\ housingChart' = r.chart
    /\ stats' = r.stats
    /\ uncaught' = (uncaught \/ r.threw)
    /\ btnDisabled' = btnDisabled
    /\ loads' = Remove(loads, i)
    /\ lastLoad' = [valid |-> TRUE, trigger |-> loads[i].trigger, outcome |-> outcome,
                    value |-> value, seed |-> IF r.fallback THEN seed ELSE 0,
                    threw |-> r.threw, fallback |-> r.fallback]
    /\ UNCHANGED <<phase, timeframe, smaSelect, fnIn, fnOut>>

\* a loadData() call that returns before its render has reached the chart
CompleteNoRender(i, r, outcome, value, seed) ==
    /\ cachedData' = r.cachedData
    /\ housingChart' = housingChart
    /\ stats' = r.stats
    /\ uncaught' = (uncaught \/ r.threw)
    /\ btnDisabled' = IF loads[i].trigger = "refresh" /\ ~r.threw THEN FALSE ELSE btnDisabled
    /\ loads' = Remove(loads, i)
    /\ lastLoad' = [valid |-> TRUE, trigger |-> loads[i].trigger, outcome |-> outcome,
                    value |-> value, seed |-> IF r.fallback THEN seed ELSE 0,
                    threw |-> r.threw, fallback |-> r.fallback]
    /\ UNCHANGED <<phase, timeframe, smaSelect, fnIn, fnOut>>

\* a loadData() call whose return enables the button, whoever started it
CompleteEnables(i, r, outcome, value, seed) ==
    /\ cachedData' = r.cachedData
    /\ housingChart' = r.chart
    /\ stats' = r.stats
    /\ uncaught' = (uncaught \/ r.threw)
    /\ btnDisabled' = IF ~r.threw THEN FALSE ELSE btnDisabled
    /\ loads' = Remove(loads, i)
    /\ lastLoad' = [valid |-> TRUE, trigger |-> loads[i].trigger, outcome |-> outcome,
                    value |-> value, seed |-> IF r.fallback THEN seed ELSE 0,
                    threw |-> r.threw, fallback |-> r.fallback]
    /\ UNCHANGED <<phase, timeframe, smaSelect, fnIn, fnOut>>

\* loadData() call i returns with globals r: its promise settles, and the
\* refreshData() awaiting it resumes at line 315 unless the promise rejected
Complete(i, r, outcome, value, seed) ==
    /\ cachedData' = r.cachedData
    /\ housingChart' = r.chart
    /\ stats' = r.stats
    /\ uncaught' = (uncaught \/ r.threw)
    /\ btnDisabled' = IF loads[i].trigger = "refresh" /\ ~r.threw THEN FALSE ELSE btnDisabled
    /\ loads' = Remove(loads, i)
    /\ lastLoad' = [valid |-> TRUE, trigger |-> loads[i].trigger, outcome |-> outcome,
                    value |-> value, seed |-> IF r.fallback THEN seed ELSE 0,
                    threw |-> r.threw, fallback |-> r.fallback]
    /\ UNCHANGED <<phase, timeframe, smaSelect, fnIn, fnOut>>

\* fetch() rejects (line 166): the catch block runs
FetchRejected(i) ==
    /\ loads[i].stage = "fetch"
    /\ \E seed \in Seeds :
         Complete(i, loadDataCatch(seed, housingChart, stats, timeframe, smaSelect),
                  "reject", NullValue, seed)

\* fetch() resolves with a response that is not ok (lines 168-170)
FetchNotOk(i) ==
    /\ loads[i].stage = "fetch"
    /\ \E seed \in Seeds :
         Complete(i, loadDataCatch(seed, housingChart, stats, timeframe, smaSelect),
                  "notok", NullValue, seed)

\* fetch() resolves with an ok response: loadData() awaits response.json()
FetchOk(i) ==
    /\ loads[i].stage = "fetch"
    /\ loads' = [loads EXCEPT ![i].stage = "json"]
    /\ UNCHANGED <<phase, housingChart, cachedData, timeframe, smaSelect, stats,
                   btnDisabled, lastLoad, uncaught, fnIn, fnOut>>

\* response.json() rejects: the body is no JSON
JsonRejected(i) ==
    /\ loads[i].stage = "json"
    /\ \E seed \in Seeds :
         Complete(i, loadDataCatch(seed, housingChart, stats, timeframe, smaSelect),
                  "badjson", NullValue, seed)

\* response.json() resolves with `value` in a loadData() without a catch
\* block: an exception of lines 173-174 escapes the call
JsonResolvedUncaught(i, value) ==
    /\ loads[i].stage = "json"
    /\ Complete(i, loadDataTry(value, housingChart, stats, timeframe, smaSelect),
                "json", value, 0)

\* response.json() resolves with `value`: lines 172-174 run, and the catch
\* block when they throw
JsonResolved(i, value) ==
    /\ loads[i].stage = "json"
    /\ LET t == loadDataTry(value, housingChart, stats, timeframe, smaSelect)
       IN  IF t.threw
           THEN \E seed \in Seeds :
                  Complete(i, loadDataCatch(seed, t.chart, t.stats, timeframe, smaSelect),
                           "json", value, seed)
           ELSE Complete(i, t, "json", value, 0)

Next ==
    \/ ScriptLoad
    \/ DOMContentLoaded
    \/ \E v \in Timeframes : TimeframeChange(v)
    \/ \E v \in SmaPeriods : SmaChange(v)
    \/ RefreshClick
    \/ \E i \in 1..Len(loads) : FetchRejected(i)
    \/ \E i \in 1..Len(loads) : FetchNotOk(i)
    \/ \E i \in 1..Len(loads) : FetchOk(i)
    \/ \E i \in 1..Len(loads) : JsonRejected(i)
    \/ \E i \in 1..Len(loads), value \in JsonValues : JsonResolved(i, value)

Spec == Init /\ [][Next]_vars

\* the fetch() or the response.json() that a load started by a refresh awaits
\* settles: the load moves on to decoding, or returns.  Every such change of
\* `loads` is a step of FetchRejected, FetchNotOk, FetchOk, JsonRejected or
\* JsonResolved, and one of them is enabled for every load in flight.
RefreshSettles ==
    \E i \in 1..Len(loads) :
        /\ loads[i].trigger = "refresh"
        /\ \/ loads' = Remove(loads, i)
           \/ loads[i].stage = "fetch" /\ loads' = [loads EXCEPT ![i].stage = "json"]

\* the page when the network answers every request of a refresh
FairSpec == Spec /\ WF_loads(RefreshSettles)

\* the loads in flight that no refresh started
OthersInFlight == {i \in 1..Len(loads) : loads[i].trigger # "refresh"}

\* the page when the fetch of a load started by a refresh never settles: the
\* steps of Next but for the settling of such a load
HungNext ==
    \/ ScriptLoad
    \/ DOMContentLoaded
    \/ \E v \in Timeframes : TimeframeChange(v)
    \/ \E v \in SmaPeriods : SmaChange(v)
    \/ RefreshClick
    \/ \E i \in OthersInFlight : FetchRejected(i)
    \/ \E i \in OthersInFlight : FetchNotOk(i)
    \/ \E i \in OthersInFlight : FetchOk(i)
    \/ \E i \in OthersInFlight : JsonRejected(i)
    \/ \E i \in OthersInFlight, value \in JsonValues : JsonResolved(i, value)

HungSpec == Init /\ [][HungNext]_vars

----------------------------------------------------------------------------
(* calculateSMA on its own: every short series, the series of the end-to-end *)
(* example, and every period from 1 to one more than the longest series     *)

RECURSIVE SeqsUpTo(_, _)
SeqsUpTo(S, n) ==
    IF n = 0 THEN {<<>>}
    ELSE LET shorter == SeqsUpTo(S, n - 1)
         IN  shorter \cup {Append(q, x) : q \in shorter, x \in S}

ExampleSeries == ToArray([k \in 1..10 |-> Num(10 * k)], 10)

SMAInputs == SeqsUpTo({Num(v) : v \in 0..MaxVal}, MaxSeqLen) \cup {ExampleSeries}

InitSMA ==
    /\ phase = "loading"
    /\ housingChart = NullChart
    /\ cachedData = NullValue
    /\ timeframe = "all"
    /\ smaSelect = "0"
    /\ stats = UnsetStats
    /\ btnDisabled = FALSE
    /\ loads = <<>>
    /\ lastLoad = NoLoad
    /\ uncaught = FALSE
    /\ fnIn \in {[fn |-> "sma", data |-> d, arg |-> q] :
                    d \in SMAInputs, q \in 1..(MaxSeqLen + 1)}
    /\ fnOut = NoResult

\* calculateSMA(data, period) is called and returns
RunSMA ==
    /\ fnIn.fn = "sma"
    /\ ~fnOut.done
    /\ fnOut' = [done |-> TRUE, value |-> calculateSMA(fnIn.data, fnIn.arg)]
    /\ UNCHANGED <<phase, housingChart, cachedData, timeframe, smaSelect, stats,
                   btnDisabled, loads, lastLoad, uncaught, fnIn>>

NextSMA == RunSMA

SpecSMA == InitSMA /\ [][NextSMA]_vars

----------------------------------------------------------------------------
(* The timeframe filter on its own: datasets of every length up to           *)
(* MaxDatasetLen and the demo datasets, under every option of the control    *)

Datasets ==
    {Payload("rising", n).items : n \in 0..MaxDatasetLen}
        \cup {DemoData(seed) : seed \in Seeds}

InitFilter ==
    /\ phase = "loading"
    /\ housingChart = NullChart
    /\ cachedData = NullValue
    /\ timeframe = "all"
    /\ smaSelect = "0"
    /\ stats = UnsetStats
    /\ btnDisabled = FALSE
    /\ loads = <<>>
    /\ lastLoad = NoLoad
    /\ uncaught = FALSE
    /\ fnIn \in {[fn |-> "filter", data |-> d, arg |-> tf] :
                    d \in Datasets, tf \in Timeframes}
    /\ fnOut = NoResult

\* lines 219-223 run on the dataset; slice() leaves its receiver as it was
RunFilter ==
    /\ fnIn.fn = "filter"
    /\ ~fnOut.done
    /\ fnOut' = [done |-> TRUE, value |-> FilterData(fnIn.data, fnIn.arg)]
    /\ UNCHANGED <<phase, housingChart, cachedData, timeframe, smaSelect, stats,
                   btnDisabled, loads, lastLoad, uncaught, fnIn>>

NextFilter == RunFilter

SpecFilter == InitFilter /\ [][NextFilter]_vars

----------------------------------------------------------------------------
(* updateStats on its own: the cache holds a dataset of 1 to MaxDatasetLen   *)
(* points with rising or falling prices, or a demo dataset, under every      *)
(* option of the timeframe control                                           *)

StatsInputs ==
    {Payload(kind, n) : kind \in {"rising", "falling"}, n \in 1..MaxDatasetLen}
        \cup DemoDatasets

InitStats ==
    /\ phase = "ready"
    /\ housingChart = initializeChart
    /\ cachedData \in StatsInputs
    /\ timeframe \in Timeframes
    /\ smaSelect = "0"
    /\ stats = UnsetStats
    /\ btnDisabled = FALSE
    /\ loads = <<>>
    /\ lastLoad = NoLoad
    /\ uncaught = FALSE
    /\ fnIn = [fn |-> "stats", data |-> <<>>, arg |-> 0]
    /\ fnOut = NoResult

\* updateStats() is called and returns
RunStats ==
    /\ fnIn.fn = "stats"
    /\ ~fnOut.done
    /\ LET r == updateStats(cachedData, stats)
       IN  /\ stats' = r.stats
           /\ uncaught' = (uncaught \/ r.threw)
    /\ fnOut' = [done |-> TRUE, value |-> <<>>]
    /\ UNCHANGED <<phase, housingChart, cachedData, timeframe, smaSelect,
                   btnDisabled, loads, lastLoad, fnIn>>

NextStats == RunStats

SpecStats == InitStats /\ [][NextStats]_vars

----------------------------------------------------------------------------
(* updateChart on its own, run several times in a row: the cache is null,    *)
(* empty, a payload or a demo dataset, and the chart is the new chart or one *)
(* that an earlier run has drawn from another cache, window and period       *)

ChartCaches ==
    {Payload("rising", n) : n \in {1, MaxPayloadLen - 1, MaxPayloadLen}} \cup DemoDatasets

PriorCharts ==
    {initializeChart}
        \cup {updateChart(cd, initializeChart, tf, sma).chart :
                 cd \in ChartCaches, tf \in {"7", "all"}, sma \in {"0", "7"}}

InitChart ==
    /\ phase = "ready"
    /\ housingChart \in PriorCharts
    /\ cachedData \in ChartCaches \cup {NullValue, Payload("rising", 0)}
    /\ timeframe \in Timeframes
    /\ smaSelect \in SmaPeriods
    /\ stats = UnsetStats
    /\ btnDisabled = FALSE
    /\ loads = <<>>
    /\ lastLoad = NoLoad
    /\ uncaught = FALSE
    /\ fnIn = [fn |-> "chart", data |-> <<>>, arg |-> 0]
    /\ fnOut = NoResult

\* updateChart() is called and returns; fnIn.arg counts the calls
RunUpdateChart ==
    /\ fnIn.fn = "chart"
    /\ fnIn.arg < MaxRuns
    /\ LET r == updateChart(cachedData, housingChart, timeframe, smaSelect)
       IN  /\ housingChart' = r.chart
           /\ uncaught' = (uncaught \/ r.threw)
    /\ fnIn' = [fnIn EXCEPT !.arg = @ + 1]
    /\ fnOut' = [done |-> TRUE, value |-> <<>>]
    /\ UNCHANGED <<phase, cachedData, timeframe, smaSelect, stats,
                   btnDisabled, loads, lastLoad>>

NextChart == RunUpdateChart

SpecChart == InitChart /\ [][NextChart]_vars

----------------------------------------------------------------------------
(* What the claims speak about *)

\* the points a window shows: the last min(window, n), all of them for "all"
WindowLen(tf, n) == IF tf = "all" THEN n ELSE Min(parseInt(tf), n)
Shown(items, tf) ==
    SubSeq(items, Len(items) - WindowLen(tf, Len(items)) + 1, Len(items))

\* the chart's labels and base series are those of `items` under window tf
RenderedFrom(chart, items, tf) ==
    LET sh == Shown(items, tf)
    IN  /\ chart.exists
        /\ Len(chart.datasets) >= 2
        /\ Len(chart.labels) = Len(sh)
        /\ Len(chart.datasets[1].data) = Len(sh)
        /\ Len(chart.datasets[2].data) = Len(sh)
        /\ \A k \in 1..Len(sh) :
             /\ chart.labels[k] = formatDate(sh[k].date)
             /\ chart.datasets[1].data[k] = sh[k].active_listings
             /\ chart.datasets[2].data[k] = sh[k].avg_price_per_sqft

\* the statistics cards show the last point of `items`
StatsFrom(st, items) ==
    LET last == items[Len(items)]
    IN  /\ st.currentListings = [t |-> "count", sign |-> "", n |-> last.active_listings]
        /\ st.currentPrice = [t |-> "price", sign |-> "", n |-> last.avg_price_per_sqft.n]
        /\ st.lastUpdate = [t |-> "date", sign |-> "", n |-> formatDate(last.date)]
        /\ st.priceChange.t # "unset"

NonEmptyArray(v) == v.kind = "array" /\ Len(v.items) > 0

FetchFailed == lastLoad.valid /\ lastLoad.outcome \in {"reject", "notok", "badjson"}

RefreshInFlight == {i \in 1..Len(loads) : loads[i].trigger = "refresh"}

\* C1: when the fetch of a load rejects, answers with a non-success status or
\* its body fails to decode, loadData() does not throw, and the load leaves in
\* the cache the 91-point demo dataset drawn in that load, with the chart and
\* the statistics rendered from it.
C1_FailedLoadFallsBack ==
    FetchFailed =>
        /\ ~lastLoad.threw
        /\ lastLoad.fallback
        /\ lastLoad.seed \in Seeds
        /\ cachedData = ArrayOf(DemoData(lastLoad.seed))
        /\ Len(cachedData.items) = 91
        /\ RenderedFrom(housingChart, cachedData.items, timeframe)
        /\ StatsFrom(stats, cachedData.items)

\* a refresh whose body did not decode replaced a cache by demo data
C1_Witness ==
    /\ FetchFailed
    /\ lastLoad.outcome = "badjson"
    /\ lastLoad.trigger = "refresh"
    /\ cachedData \in DemoDatasets
    /\ timeframe = "30"

\* C2: once a load has completed the cache is a non-empty array (an empty or
\* non-array payload is never stored).
C2_CacheNonEmptyAfterLoad ==
    lastLoad.valid => NonEmptyArray(cachedData)

\* C3: after every completed load the chart's labels and its two base series
\* are non-empty.
C3_NeverRendersEmpty ==
    lastLoad.valid =>
        /\ housingChart.exists
        /\ housingChart.labels # <<>>
        /\ housingChart.datasets[1].data # <<>>
        /\ housingChart.datasets[2].data # <<>>

\* C4: when the fetch succeeds with a non-empty array that renders without
\* error, the load leaves the cache equal to that payload, point for point.
C4_PayloadReplacesCache ==
    (/\ lastLoad.valid
     /\ lastLoad.outcome = "json"
     /\ NonEmptyArray(lastLoad.value)
     /\ ~lastLoad.fallback)
        => /\ cachedData = lastLoad.value
           /\ ~lastLoad.threw

\* a refresh replaced the cache by a payload of several points
C4_Witness ==
    /\ lastLoad.valid
    /\ lastLoad.outcome = "json"
    /\ lastLoad.trigger = "refresh"
    /\ ~lastLoad.fallback
    /\ Len(lastLoad.value.items) = MaxPayloadLen
    /\ cachedData = lastLoad.value

\* C5: while a load started by a refresh is in flight the refresh control is
\* disabled, and no two loads started by a refresh are in flight at once.
C5_OneRefreshInFlight ==
    /\ Cardinality(RefreshInFlight) <= 1
    /\ RefreshInFlight # {} => btnDisabled

\* a refresh load is awaiting response.json() next to the initial load
C5_Witness ==
    /\ Len(loads) = 2
    /\ \E i \in RefreshInFlight : loads[i].stage = "json"
    /\ btnDisabled

ControlChanged == timeframe' # timeframe \/ smaSelect' # smaSelect

\* C7: a control change starts no fetch and leaves the cache and the
\* statistics as they were, and the chart it leaves is the one composed from
\* the cache, the window and the SMA period alone.
C7_ControlChangeReadsCacheOnly ==
    [][ControlChanged =>
          /\ cachedData' = cachedData
          /\ stats' = stats
          /\ loads' = loads
          /\ housingChart' =
                updateChart(cachedData, initializeChart, timeframe', smaSelect').chart]_vars

\* a step in which updateChart ran to its end on the chart: a change listener,
\* or a loadData() call returning
UpdateChartRan == ControlChanged \/ Len(loads') < Len(loads)

\* smaPeriod > 0 and the filtered dataset has at least smaPeriod points
OverlayDue(cd, tf, sma) ==
    parseInt(sma) > 0 /\ WindowLen(tf, Len(cd.items)) >= parseInt(sma)

HasOverlay(chart) == Len(chart.datasets) > 2

\* C8: after every run of updateChart over a non-empty cache the chart holds
\* an overlay series exactly when smaPeriod > 0 and the filtered dataset has
\* at least smaPeriod points, whatever it held before the run.
C8_OverlayIffDue ==
    [][(UpdateChartRan /\ NonEmptyArray(cachedData')) =>
          (HasOverlay(housingChart') <=> OverlayDue(cachedData', timeframe', smaSelect'))]_vars

\* the 30-period overlay is absent over a payload shorter than 30 points
C8_Witness ==
    /\ lastLoad.valid
    /\ ~lastLoad.fallback
    /\ NonEmptyArray(cachedData)
    /\ Len(cachedData.items) = MaxPayloadLen
    /\ smaSelect = "30"
    /\ housingChart.labels # <<>>
    /\ ~HasOverlay(housingChart)

\* C9: once the user has selected smaPeriod = 0 and the change listener has
\* run, the chart holds no overlay series.
C9_SelectingZeroRemovesOverlay ==
    [][(smaSelect # "0" /\ smaSelect' = "0") => ~HasOverlay(housingChart')]_vars

\* the sum of the numbers v[lo], ..., v[hi]
RECURSIVE SumOf(_, _, _)
SumOf(v, lo, hi) == IF lo > hi THEN 0 ELSE v[lo].n + SumOf(v, lo + 1, hi)

\* the number x is the mean of v[lo..hi]
IsMeanOf(x, v, lo, hi) ==
    /\ IsNumber(x)
    /\ x.d > 0
    /\ x.n * (hi - lo + 1) = x.d * SumOf(v, lo, hi)

\* C10: for a period p >= 1 and a series of n numbers, calculateSMA returns n
\* entries, null at the indices 0..p-2 and the mean of values[i-p+1..i] at
\* every index i >= p-1; [10, 20, ..., 100] with p = 3 gives
\* [null, null, 20, 30, 40, 50, 60, 70, 80, 90].
C10_SMAValues ==
    (fnIn.fn = "sma" /\ fnOut.done) =>
        LET v == fnIn.data
            q == fnIn.arg
            out == fnOut.value
        IN  /\ Len(out) = Len(v)
            /\ \A k \in 1..Len(v) :
                 IF k - 1 <= q - 2 THEN out[k] = JSNull
                 ELSE IsMeanOf(out[k], v, k - q + 1, k)
            /\ (v = ExampleSeries /\ q = 3) =>
                 /\ out[1] = JSNull
                 /\ out[2] = JSNull
                 /\ \A k \in 3..10 : IsNumber(out[k]) /\ out[k].n = 10 * (k - 1) * out[k].d

\* the SMA of the example series with period 3 has been computed
C10_Witness ==
    /\ fnIn.fn = "sma"
    /\ fnIn.data = ExampleSeries
    /\ fnIn.arg = 3
    /\ fnOut.done
    /\ Len(fnOut.value) = 10

\* C11: for a series of n values and a period p > n, calculateSMA returns
\* exactly n entries, every one of them null.
C11_SMAAllNullWhenShort ==
    (fnIn.fn = "sma" /\ fnOut.done /\ fnIn.arg > Len(fnIn.data)) =>
        /\ Len(fnOut.value) = Len(fnIn.data)
        /\ \A k \in 1..Len(fnOut.value) : fnOut.value[k] = JSNull

\* the SMA of a series of several values with a longer period has been computed
C11_Witness ==
    /\ fnIn.fn = "sma"
    /\ fnOut.done
    /\ Len(fnIn.data) = MaxSeqLen
    /\ fnIn.arg = MaxSeqLen + 1
    /\ Len(fnOut.value) = MaxSeqLen

NumericWindows == {"7", "30", "90", "180", "365"}

\* `out` is the last m points of `data`, in their order
IsSuffix(out, data, m) ==
    /\ Len(out) = m
    /\ \A k \in 1..m : out[k] = data[Len(data) - m + k]

\* C12: for a window w of 7, 30, 90, 180 or 365 and a dataset of n points the
\* filter yields the last min(w, n) points in their order, neither padded nor
\* reordered, and leaves the dataset as it was: 30 on 10 points yields all
\* 10, 7 on 100 points yields the last 7.
C12_WindowIsSuffix ==
    /\ [](  (fnIn.fn = "filter" /\ fnOut.done /\ fnIn.arg \in NumericWindows) =>
               LET n == Len(fnIn.data)
                   w == parseInt(fnIn.arg)
               IN  /\ IsSuffix(fnOut.value, fnIn.data, IF w < n THEN w ELSE n)
                   /\ (n = 10 /\ w = 30) => fnOut.value = fnIn.data
                   /\ (n = 100 /\ w = 7) =>
                        fnOut.value = SubSeq(fnIn.data, 94, 100)  )
    /\ [][fnIn.fn = "filter" => fnIn'.data = fnIn.data]_vars

\* the window 7 has been applied to a dataset of 100 points
C12_Witness ==
    /\ fnIn.fn = "filter"
    /\ fnOut.done
    /\ fnIn.arg = "7"
    /\ Len(fnIn.data) = 100
    /\ Len(fnOut.value) = 7

\* C13: for the window "all" the filter yields every point of the dataset in
\* the original order.
C13_AllKeepsEverything ==
    (fnIn.fn = "filter" /\ fnOut.done /\ fnIn.arg = "all") =>
        /\ Len(fnOut.value) = Len(fnIn.data)
        /\ \A k \in 1..Len(fnIn.data) : fnOut.value[k] = fnIn.data[k]

\* the window "all" has been applied to a dataset longer than the demo history
C13_Witness ==
    /\ fnIn.fn = "filter"
    /\ fnOut.done
    /\ fnIn.arg = "all"
    /\ Len(fnIn.data) = MaxDatasetLen
    /\ Len(fnOut.value) = MaxDatasetLen

\* the text shows, to one decimal, the percent change from the price `ref` to
\* the price `latest` (both in cents, ref > 0): tenths within half a tenth of
\* |latest - ref| * 100 / ref, and a minus sign exactly for a fall
ShowsPercentChange(text, latest, ref) ==
    LET diff == (latest - ref) * 100
    IN  /\ text.t = "percent"
        /\ 2 * Abs(10 * Abs(diff) - text.n * ref) <= ref
        /\ (text.sign = "-") <=> (diff < 0)

\* C14: for a non-empty dataset of n points updateStats shows the last point
\* as the latest one and the percent change of its price from the price of
\* the point at index max(0, n-1-30) of the whole cache (index 0 for n < 31,
\* index 9 for n = 40), whatever window is selected.
C14_StatsReferencePoint ==
    (fnIn.fn = "stats" /\ fnOut.done) =>
        LET items == cachedData.items
            n == Len(items)
            latest == items[n]
            refIndex == IF n - 1 - 30 > 0 THEN n - 1 - 30 ELSE 0
            ref == items[refIndex + 1]
        IN  /\ ~uncaught
            /\ stats.currentListings.n = latest.active_listings
            /\ stats.currentPrice.n = latest.avg_price_per_sqft.n
            /\ stats.lastUpdate.n = formatDate(latest.date)
            /\ ShowsPercentChange(stats.priceChange,
                                  latest.avg_price_per_sqft.n, ref.avg_price_per_sqft.n)
            /\ n < 31 => ShowsPercentChange(stats.priceChange,
                              latest.avg_price_per_sqft.n, items[1].avg_price_per_sqft.n)
            /\ n = 40 => ShowsPercentChange(stats.priceChange,
                              latest.avg_price_per_sqft.n, items[10].avg_price_per_sqft.n)

\* the cards have been written from a 40-point dataset while the window is 7
C14_Witness ==
    /\ fnIn.fn = "stats"
    /\ fnOut.done
    /\ Len(cachedData.items) = 40
    /\ timeframe = "7"
    /\ stats.priceChange.t = "percent"
    /\ stats.priceChange.n > 0

\* C15: no reachable state displays a percent change that is not finite
\* (NaN% or Infinity%): a reference price of 0 leaves the card unset.
C15_NoNonFinitePercent ==
    stats.priceChange.t \notin {"NaN%", "Infinity%"}

\* the cache is as useDemoData() has just left it
DemoDataJustStored == phase = "script" \/ (lastLoad.valid /\ lastLoad.fallback)

\* C16: the synthetic generator produces exactly 91 points, one per calendar
\* day ending today, the dates increasing by one day from point to point, the
\* first 60 points labelled 'historical' and the last 31 'scraped'.
C16_DemoDataShape ==
    DemoDataJustStored =>
        LET items == cachedData.items
        IN  /\ cachedData.kind = "array"
            /\ Len(items) = 91
            /\ items[91].date = Today
            /\ \A k \in 1..90 : items[k + 1].date = items[k].date + 1
            /\ \A k \in 1..91 :
                 items[k].data_source = IF k <= 60 THEN "historical" ELSE "scraped"

\* C17: in every state before the first completion of a load the cache is
\* null or an empty sequence.
C17_CacheEmptyBeforeFirstLoad ==
    ~lastLoad.valid => ~NonEmptyArray(cachedData)

\* the avg_price_per_sqft of the last m of the points, in their order
LastPrices(points, m) ==
    ToArray([k \in 1..m |-> points[Len(points) - m + k].avg_price_per_sqft], m)

\* the sum of the avg_price_per_sqft of points[lo], ..., points[hi]
RECURSIVE SumPrices(_, _, _)
SumPrices(points, lo, hi) ==
    IF lo > hi THEN 0
    ELSE points[lo].avg_price_per_sqft.n + SumPrices(points, lo + 1, hi)

\* the labels and the two base series of the chart are the formatted dates,
\* the active_listings and the avg_price_per_sqft of the last m of the points
ShowsLast(chart, points, m) ==
    /\ Len(chart.labels) = m
    /\ Len(chart.datasets[1].data) = m
    /\ Len(chart.datasets[2].data) = m
    /\ \A k \in 1..m :
         /\ chart.labels[k] = formatDate(points[Len(points) - m + k].date)
         /\ chart.datasets[1].data[k] = points[Len(points) - m + k].active_listings
         /\ chart.datasets[2].data[k] = points[Len(points) - m + k].avg_price_per_sqft

\* the overlay of the chart is the SMA of period q over the prices of the last
\* m of the points and of no earlier point: calculateSMA of those prices, null
\* in its first q-1 entries, and the mean of the first and of the last q
\* prices of the window where it first and last has a number
OverlayOverLast(chart, points, m, q) ==
    /\ Len(chart.datasets[3].data) = m
    /\ chart.datasets[3].data = calculateSMA(LastPrices(points, m), q)
    /\ \A k \in 1..(q - 1) : chart.datasets[3].data[k] = JSNull
    /\ \A k \in {q, m} :
         IsNumber(chart.datasets[3].data[k]) =>
            /\ chart.datasets[3].data[k].d > 0
            /\ chart.datasets[3].data[k].n * q =
                 chart.datasets[3].data[k].d
                    * SumPrices(points, Len(points) - m + k - q + 1, Len(points) - m + k)

\* C18: after updateChart has run over a non-empty cache with window w and
\* period p, the labels and the two base series are the formatted dates, the
\* active_listings and the avg_price_per_sqft of the filtered suffix, point
\* for point, and the overlay, when present, is calculateSMA of the secondary
\* series of the window only: its first p-1 entries are null even when the
\* cache holds earlier points.
C18_ChartShowsWindow ==
    [][(UpdateChartRan /\ NonEmptyArray(cachedData')) =>
          /\ ShowsLast(housingChart', cachedData'.items,
                       WindowLen(timeframe', Len(cachedData'.items)))
          /\ HasOverlay(housingChart') =>
                OverlayOverLast(housingChart', cachedData'.items,
                                WindowLen(timeframe', Len(cachedData'.items)),
                                parseInt(smaSelect'))]_vars

\* the 7-period overlay over the last 30 of the 91 demo points starts with null
C18_Witness ==
    /\ lastLoad.valid
    /\ NonEmptyArray(cachedData)
    /\ Len(cachedData.items) = 91
    /\ timeframe = "30"
    /\ smaSelect = "7"
    /\ HasOverlay(housingChart)
    /\ Len(housingChart.labels) = 30
    /\ housingChart.datasets[3].data[1] = JSNull
    /\ IsNumber(housingChart.datasets[3].data[7])

\* C19 as stated: whenever an overlay is present after a composition with
\* period p its label is "{p}-period SMA", when the slot is added and when it
\* is updated in place.
C19_LabelPeriodSMA ==
    [][(UpdateChartRan /\ NonEmptyArray(cachedData') /\ HasOverlay(housingChart')) =>
          housingChart'.datasets[3].label
              = ToString(parseInt(smaSelect')) \o "-period SMA"]_vars

\* C19, amended: whenever an overlay is present after a composition with
\* period p its label is "{p}-Day SMA" for the p of that composition, when the
\* slot is added and when it is updated in place.
C19_LabelDaySMA ==
    [][(UpdateChartRan /\ NonEmptyArray(cachedData') /\ HasOverlay(housingChart')) =>
          housingChart'.datasets[3].label
              = ToString(parseInt(smaSelect')) \o "-Day SMA"]_vars

\* a 30-period overlay is shown under its label
C19_Witness ==
    /\ lastLoad.valid
    /\ NonEmptyArray(cachedData)
    /\ smaSelect = "30"
    /\ HasOverlay(housingChart)
    /\ housingChart.datasets[3].label = "30-Day SMA"

\* C20: at no time are two loads in flight, the initial load started on
\* DOMContentLoaded and a load started by a refresh click included.
C20_LoadsSerialized == Len(loads) <= 1

\* C21: a run of updateChart that follows a run with the same cache, window
\* and smaPeriod leaves the chart as that run left it (labels, base series,
\* overlay presence, label and data) and adds no second overlay slot.
C21_UpdateChartIdempotent ==
    [][(fnIn.fn = "chart" /\ fnIn.arg >= 1 /\ fnIn'.arg = fnIn.arg + 1) =>
          /\ housingChart' = housingChart
          /\ Len(housingChart'.datasets) <= 3]_vars

\* updateChart has run twice in a row and the chart holds an overlay
C21_Witness ==
    /\ fnIn.fn = "chart"
    /\ fnIn.arg = 2
    /\ NonEmptyArray(cachedData)
    /\ HasOverlay(housingChart)
    /\ Len(housingChart.datasets) = 3

\* C22: in every reachable state an overlay series that the chart holds has
\* at least one entry that is not null.
C22_OverlayNeverAllNull ==
    HasOverlay(housingChart) =>
        \E k \in 1..Len(housingChart.datasets[3].data) :
            housingChart.datasets[3].data[k] # JSNull

\* the 7-period overlay over a payload of exactly 7 points: one number
C22_Witness ==
    /\ NonEmptyArray(cachedData)
    /\ Len(cachedData.items) = 7
    /\ smaSelect = "7"
    /\ HasOverlay(housingChart)
    /\ housingChart.datasets[3].data[6] = JSNull
    /\ IsNumber(housingChart.datasets[3].data[7])

\* the values of the cache over which updateChart ran in a step: the cache for
\* a change listener; the decoded payload and, after a fallback, the demo
\* dataset for a returning load; the demo dataset for the script-load call
CachesRendered ==
    IF ControlChanged THEN {cachedData}
    ELSE IF Len(loads') < Len(loads)
    THEN {cachedData'} \cup (IF lastLoad'.outcome = "json" THEN {lastLoad'.value} ELSE {})
    ELSE IF phase' # phase /\ phase = "loading" THEN {cachedData'}
    ELSE {}

\* C23: under every sequence of loads and control changes calculateSMA is
\* called only with a period that is a number greater than 0.
C23_SMAPeriodPositive ==
    [][\A cd \in CachesRendered :
          \A q \in SMACalls(cd, housingChart', timeframe', smaSelect') :
              q \in Nat /\ q > 0]_vars

\* updateChart has run over a non-empty cache with smaPeriod 0, without a call
C23_Witness ==
    /\ lastLoad.valid
    /\ NonEmptyArray(cachedData)
    /\ smaSelect = "0"
    /\ housingChart.labels # <<>>
    /\ Len(housingChart.datasets) = 2
    /\ SMACalls(cachedData, housingChart, timeframe, smaSelect) = {}

\* C24: when the cache is null or empty, updateStats changes none of the
\* statistics cards: a load that leaves such a cache leaves count, price,
\* percent change, its colour and the last-update date as they were.
C24_EmptyCacheKeepsStats ==
    [][(Len(loads') < Len(loads) /\ ~NonEmptyArray(cachedData')) => stats' = stats]_vars

\* a payload [] has been stored while the cards show an earlier dataset
C24_Witness ==
    /\ lastLoad.valid
    /\ lastLoad.outcome = "json"
    /\ lastLoad.value = Payload("rising", 0)
    /\ cachedData = lastLoad.value
    /\ stats.currentPrice.t = "price"
    /\ stats.lastUpdate.t = "date"

\* C25: the percent-change text carries a leading '+' exactly when the change
\* from the reference price to the latest price is non-negative, zero
\* included (a one-point dataset shows +0.0%), and the '-' sign and no '+'
\* when it is negative.
C25_PlusIffNonNegative ==
    (fnIn.fn = "stats" /\ fnOut.done) =>
        LET items == cachedData.items
            n == Len(items)
            change == items[n].avg_price_per_sqft.n
                         - items[Max(0, n - 31) + 1].avg_price_per_sqft.n
        IN  /\ stats.priceChange.sign \in {"+", "-"}
            /\ (stats.priceChange.sign = "+") <=> (change >= 0)
            /\ change < 0 => stats.priceChange.sign = "-"
            /\ n = 1 => stats.priceChange = [t |-> "percent", sign |-> "+", n |-> 0]

\* the cards have been written from a one-point dataset: +0.0%
C25_Witness ==
    /\ fnIn.fn = "stats"
    /\ fnOut.done
    /\ Len(cachedData.items) = 1
    /\ stats.priceChange = [t |-> "percent", sign |-> "+", n |-> 0]

\* C26: in every reachable state the dataset in the cache is strictly
\* increasing by date, no two points sharing a date, whether it came from the
\* fetch or from the synthetic generator.
C26_CacheStrictlyIncreasingByDate ==
    cachedData.kind = "array" =>
        \A k \in 1..(Len(cachedData.items) - 1) :
            cachedData.items[k].date < cachedData.items[k + 1].date

\* C27 as stated: the fetch is the only suspension point of a load, so no load
\* is ever suspended once its fetch has settled.
C27_FetchOnlySuspension ==
    \A i \in 1..Len(loads) : loads[i].stage = "fetch"

\* C27, amended: a load is suspended at the fetch or at the decoding of the
\* response body and nowhere else; once the body is decoded (or either await
\* has failed) the cache write, the chart render and the stats update happen
\* in one step, with no other handler in between, and only such a step
\* writes the cache once the page is ready.
C27_DecodedLoadRunsToCompletion ==
    [][/\ \A i \in 1..Len(loads') : loads'[i].stage \in {"fetch", "json"}
       /\ (phase = "ready" /\ cachedData' # cachedData) => Len(loads') < Len(loads)
       /\ (Len(loads') < Len(loads) /\ NonEmptyArray(cachedData')) =>
             /\ ShowsLast(housingChart', cachedData'.items,
                          WindowLen(timeframe', Len(cachedData'.items)))
             /\ StatsFrom(stats', cachedData'.items)]_vars

\* a load is suspended at the decoding of its body, between the status check
\* and the cache write, after another load has completed
C27_Witness ==
    /\ lastLoad.valid
    /\ \E i \in 1..Len(loads) :
         loads[i].stage = "json" /\ loads[i].trigger # lastLoad.trigger

\* C28: there is no timeout and no cancellation.  While the fetch of a load
\* started by a refresh does not settle, the refresh control, once disabled,
\* stays disabled; cache and statistics change only when a load that is not
\* that one returns; and a timeframe or SMA change is still served from the
\* cache as it is.
C28_HungRefreshStaysDisabled ==
    [][/\ btnDisabled => (btnDisabled' /\ RefreshInFlight' # {})
       /\ (phase = "ready" /\ (cachedData' # cachedData \/ stats' # stats)) =>
             \E i \in OthersInFlight : loads' = Remove(loads, i)
       /\ (btnDisabled /\ ControlChanged) =>
             /\ cachedData' = cachedData
             /\ loads' = loads
             /\ NonEmptyArray(cachedData) =>
                   ShowsLast(housingChart', cachedData.items,
                             WindowLen(timeframe', Len(cachedData.items)))]_vars

\* the initial load has returned while the fetch of a refresh is pending
C28_Witness ==
    /\ btnDisabled
    /\ Len(loads) = 1
    /\ loads[1] = [trigger |-> "refresh", stage |-> "fetch"]
    /\ lastLoad.valid
    /\ lastLoad.trigger = "initial"
    /\ NonEmptyArray(cachedData)

\* C29: in every reachable state after chart initialisation the chart holds 2
\* or 3 series: the two base series at indices 0 and 1, never removed or
\* reordered, and at most one overlay, at index 2.
C29_TwoOrThreeSeries ==
    housingChart.exists =>
        /\ Len(housingChart.datasets) \in {2, 3}
        /\ housingChart.datasets[1].label = "Active Listings"
        /\ housingChart.datasets[2].label = "Avg Price/SqFt"
        /\ Len(housingChart.datasets) = 3 =>
              housingChart.datasets[3].label \in {"7-Day SMA", "30-Day SMA", "90-Day SMA"}

\* the chart holds the two base series and the 90-period overlay
C29_Witness ==
    /\ housingChart.exists
    /\ Len(housingChart.datasets) = 3
    /\ housingChart.datasets[3].label = "90-Day SMA"
    /\ timeframe = "all"

\* C30: in every reachable state the chart's labels, primary series and
\* secondary series have the same length, and so has the overlay series when
\* there is one.
C30_SeriesSameLength ==
    housingChart.exists =>
        /\ Len(housingChart.datasets[1].data) = Len(housingChart.labels)
        /\ Len(housingChart.datasets[2].data) = Len(housingChart.labels)
        /\ HasOverlay(housingChart) =>
              Len(housingChart.datasets[3].data) = Len(housingChart.labels)

\* 30 labels and a 30-period overlay of 30 entries
C30_Witness ==
    /\ HasOverlay(housingChart)
    /\ smaSelect = "30"
    /\ Len(housingChart.labels) = 30
    /\ Len(housingChart.datasets[3].data) = 30
    /\ Len(housingChart.datasets[1].data) = 30

\* C31: at every point where a handler can begin after chart initialisation,
\* the chart's labels and two base series are the projection of the current
\* cache filtered by the selected window (empty for a null or empty cache).
C31_ChartProjectsCache ==
    phase = "ready" =>
        IF NonEmptyArray(cachedData)
        THEN ShowsLast(housingChart, cachedData.items,
                       WindowLen(timeframe, Len(cachedData.items)))
        ELSE /\ housingChart.labels = <<>>
             /\ housingChart.datasets[1].data = <<>>
             /\ housingChart.datasets[2].data = <<>>

\* the last load in flight returns, and it is the load `trigger` started
LastReturns(trigger) ==
    /\ Len(loads) = 1
    /\ loads[1].trigger = trigger
    /\ loads' = <<>>

\* C32: when the initial load and a refresh load overlap, after both have
\* completed the cache holds the outcome (payload or synthetic fallback) of
\* the load that was started last, the refresh, in whichever order the two
\* settle: a refresh that returns last leaves its outcome, and an initial load
\* that returns after the refresh leaves the cache as the refresh left it.
C32_LastStartedWins ==
    [][/\ (LastReturns("refresh") /\ lastLoad.valid /\ lastLoad.trigger = "initial") =>
             cachedData' = IF lastLoad'.fallback THEN ArrayOf(DemoData(lastLoad'.seed))
                           ELSE lastLoad'.value
       /\ (LastReturns("initial") /\ lastLoad.valid /\ lastLoad.trigger = "refresh") =>
             cachedData' = cachedData]_vars

\* C33: every run of updateChart that gets past the empty-cache guard, the
\* one made by the script-load call of useDemoData included, finds the chart
\* created: the handle is not null where line 231 dereferences it.
C33_ChartExistsWhenDereferenced ==
    [][\A cd \in CachesRendered : NonEmptyArray(cd) => housingChart.exists]_vars

\* rendering the decoded payload throws: it is no array (slice is not a
\* function), or its last point has no numeric price (toFixed of undefined)
PayloadThrows(v) ==
    \/ v.kind = "object"
    \/ NonEmptyArray(v) /\ ~IsNumber(v.items[Len(v.items)].avg_price_per_sqft)

\* C34: when updateChart or updateStats throws while rendering a fetched
\* payload, loadData catches it, replaces the stored payload by the synthetic
\* dataset, renders chart and statistics from it and completes normally, so
\* that a refresh waiting on it re-enables its control.
C34_RenderErrorFallsBack ==
    [][(/\ Len(loads') < Len(loads)
        /\ lastLoad'.outcome = "json"
        /\ PayloadThrows(lastLoad'.value)) =>
          /\ lastLoad'.fallback
          /\ ~lastLoad'.threw
          /\ uncaught' = uncaught
          /\ lastLoad'.seed \in Seeds
          /\ cachedData' = ArrayOf(DemoData(lastLoad'.seed))
          /\ ShowsLast(housingChart', cachedData'.items,
                       WindowLen(timeframe', Len(cachedData'.items)))
          /\ StatsFrom(stats', cachedData'.items)
          /\ \A i \in 1..Len(loads) :
                (loads[i].trigger = "refresh" /\ loads' = Remove(loads, i)) => ~btnDisabled']_vars

\* a refresh whose payload lacked the last price fell back to demo data and
\* re-enabled the button
C34_Witness ==
    /\ lastLoad.valid
    /\ lastLoad.trigger = "refresh"
    /\ lastLoad.outcome = "json"
    /\ lastLoad.value = Payload("noPrice", MaxPayloadLen)
    /\ lastLoad.fallback
    /\ cachedData \in DemoDatasets
    /\ ~btnDisabled

====
